---- MODULE Spec2Model ----
(***************************************************************************)
(* A model of src/main.go: the broadcaster (a mutex-protected slice of     *)
(* unbuffered channels with sub / usub / pub / close), the websocket       *)
(* handler ws with its reader goroutine and writer loop, the log tailing    *)
(* goroutine that publishes one event per resolved line, and main with     *)
(* its WaitGroup, signal wait and shutdown sequence.                       *)
(*                                                                         *)
(* Every goroutine is a process with a program counter.  A channel is the  *)
(* pair (closed, rq): an unbuffered channel holds no value, so all that    *)
(* matters is whether it is closed and whether its single receiver is      *)
(* parked on it ("waiting"), has just been handed a value ("handed"), or   *)
(* is elsewhere ("none").  A run-time panic (send on a closed channel,     *)
(* close of a closed channel) is recorded in fault; no goroutine recovers  *)
(* from it, so it ends the process and every action is disabled afterwards.*)
(***************************************************************************)
EXTENDS Naturals, Sequences, FiniteSets, TLC

\* Bounds of the model.
NumSessions == 2
MaxLines == 2
NumCallers == 2
MaxCalls == 2
MaxFields == 2

Sessions == 1..NumSessions
Callers == 1..NumCallers

\* Goroutines.  Session s owns channel s (ws makes one channel per call).
WsP(s) == <<"ws", s>>
ReaderP(s) == <<"reader", s>>
CallerP(k) == <<"caller", k>>
TailP == <<"tail", 0>>
ShutdownP == <<"shutdown", 0>>
MainP == <<"main", 0>>
ServerP == <<"server", 0>>
NoProc == <<"none", 0>>
Procs ==
    {WsP(s) : s \in Sessions} \cup {ReaderP(s) : s \in Sessions}
        \cup {CallerP(k) : k \in Callers}
        \cup {TailP, ShutdownP, MainP, ServerP}
Publishers == {CallerP(k) : k \in Callers} \cup {TailP, ShutdownP}

VARIABLES
    cs,         \* broadcaster.cs: the registered channels, in slice order
    mu,         \* broadcaster.mu: the goroutine holding the mutex, or NoProc
    closed,     \* closed[c]: channel c has been closed
    rq,         \* rq[c]: "none" | "waiting" | "handed" (the receiver of c)
    conn,       \* conn[s]: "none" | "open" | "gone" (peer left) | "closed"
    pc,         \* pc[p]: where goroutine p is
    carg,       \* carg[k]: the channel caller k passed to sub / usub
    idx,        \* idx[p]: position of p's range loop over b.cs
    val,        \* val[p]: the event p is broadcasting
    recvd,      \* recvd[c]: the events received from c, in order
    written,    \* written[s]: the events written to connection s, in order
    fault,      \* "none", or the panic that ended the process
    lines,      \* lines read from t.Lines so far
    calls,      \* calls[k]: calls made by caller k so far
    nextEv,     \* events broadcast so far (an event is named by its rank)
    nSub,       \* history: sub calls that appended
    nRemoved,   \* history: usub calls that found their channel registered
    usubCalls,  \* history: usubCalls[c]: completed usub(c) calls
    pending,    \* history: pending[p]: channels registered with a parked
                \*   receiver when p's pub took the mutex
    tried,      \* history: tried[c]: the last event whose send on c was
                \*   attempted (events are attempted in rising order)
    subbed,     \* history: channels already passed to sub
    wg,         \* wg: the WaitGroup counter
    eof,        \* t.Lines has been closed
    down,       \* server.Shutdown has been called
    line        \* the line the tailing goroutine took last: its text, the
                \*   events broadcast before it, and how it ended

vars ==
    <<cs, mu, closed, rq, conn, pc, carg, idx, val, recvd, written, fault,
      lines, calls, nextEv, nSub, nRemoved, usubCalls, pending, tried, subbed,
      wg, eof, down, line>>

histVars == <<nSub, nRemoved, usubCalls, pending, tried, subbed>>

mainVars == <<wg, eof, down, line>>

Range(s) == {s[n] : n \in DOMAIN s}
Last(s) == s[Len(s)]
Count(s, e) == Cardinality({n \in DOMAIN s : s[n] = e})

\* The process runs until a panic or until main returns.
Alive == fault = "none" /\ pc[MainP] # "exited"

\* The channel argument of p's sub / usub call.
Arg(p) == IF p[1] = "caller" THEN carg[p[2]] ELSE p[2]

\* Faulty variant: the log tailing goroutine publishes the line again.
AfterPubAgain(p) == IF p[1] = "tail" THEN "pub_lock" ELSE "idle"

\* Where p continues when its call returns.
AfterSub(p) == IF p[1] = "ws" THEN "go" ELSE "idle"
AfterUsub(p) == IF p[1] = "reader" THEN "close_c" ELSE "idle"
AfterPub(p) == IF p[1] = "tail" THEN "lines" ELSE "idle"
AfterClose(p) == IF p[1] = "shutdown" THEN "done" ELSE "idle"

Goto(p, l) == pc' = [pc EXCEPT ![p] = l]

(***************************************************************************)
(* sync.Mutex                                                              *)
(***************************************************************************)
Lock(p) == mu = NoProc /\ mu' = p

Unlock(p) == mu' = NoProc

(***************************************************************************)
(* broadcaster.sub                                                         *)
(***************************************************************************)
SubLock(p) ==
    /\ Alive /\ pc[p] = "sub_lock"
    /\ Lock(p)
    /\ Goto(p, "sub_cs")
    /\ UNCHANGED <<cs, closed, rq, conn, carg, idx, val, recvd, written, fault,
                   lines, calls, nextEv, histVars, mainVars>>

\* Faulty variant: the channel is appended twice.
SubAppendTwice(p) ==
    /\ Alive /\ pc[p] = "sub_cs"
    /\ cs' = Append(Append(cs, Arg(p)), Arg(p))
    /\ Unlock(p)
    /\ Goto(p, AfterSub(p))
    /\ nSub' = nSub + 1
    /\ UNCHANGED <<closed, rq, conn, carg, idx, val, recvd, written, fault,
                   lines, calls, nextEv, nRemoved, usubCalls, pending, tried,
                   subbed, mainVars>>

SubAppend(p) ==
    /\ Alive /\ pc[p] = "sub_cs"
    /\ cs' = Append(cs, Arg(p))
    /\ Unlock(p)
    /\ Goto(p, AfterSub(p))
    /\ nSub' = nSub + 1
    /\ UNCHANGED <<closed, rq, conn, carg, idx, val, recvd, written, fault,
                   lines, calls, nextEv, nRemoved, usubCalls, pending, tried,
                   subbed, mainVars>>

(***************************************************************************)
(* broadcaster.usub: n := b.cs[:0]; append every x != c; b.cs = n          *)
(***************************************************************************)
\* Faulty variants of the loop, used to test the properties below: the test
\* inverted, the appends forgotten, and the swap-with-last removal done
\* without looking whether c was found.
FilterInverted(s, c) == SelectSeq(s, LAMBDA x : x = c)

FilterNothingKept(s, c) == <<>>

FilterSwapRemove(s, c) ==
    LET at == {n \in DOMAIN s : s[n] = c}
        i == IF at = {} THEN Len(s) ELSE CHOOSE n \in at : \A m \in at : n <= m
    IN  IF s = <<>> THEN <<>>
        ELSE SubSeq([s EXCEPT ![i] = s[Len(s)]], 1, Len(s) - 1)

RECURSIVE Filter(_, _)
Filter(s, c) ==
    IF s = <<>> THEN <<>>
    ELSE IF Head(s) # c THEN <<Head(s)>> \o Filter(Tail(s), c)
    ELSE Filter(Tail(s), c)

UsubLock(p) ==
    /\ Alive /\ pc[p] = "usub_lock"
    /\ Lock(p)
    /\ Goto(p, "usub_cs")
    /\ UNCHANGED <<cs, closed, rq, conn, carg, idx, val, recvd, written, fault,
                   lines, calls, nextEv, histVars, mainVars>>

UsubFilter(p) ==
    /\ Alive /\ pc[p] = "usub_cs"
    /\ cs' = Filter(cs, Arg(p))
    /\ Unlock(p)
    /\ Goto(p, AfterUsub(p))
    /\ nRemoved' = nRemoved + (IF Arg(p) \in Range(cs) THEN 1 ELSE 0)
    /\ usubCalls' = [usubCalls EXCEPT ![Arg(p)] = @ + 1]
    /\ UNCHANGED <<closed, rq, conn, carg, idx, val, recvd, written, fault,
                   lines, calls, nextEv, nSub, pending, tried, subbed,
                   mainVars>>

(***************************************************************************)
(* broadcaster.pub: for each c in b.cs, select { case c <- v: default: }   *)
(***************************************************************************)
\* Faulty variant: a channel with a one-slot buffer takes a value whenever
\* the slot is free.
ReadyBuffered(c) == rq[c] # "handed"

\* A send on an unbuffered channel can proceed at once exactly when a
\* receiver is parked on it.
Ready(c) == rq[c] = "waiting"

\* Faulty variant: pub without b.mu.Lock().
PubLockNoMutex(p) ==
    /\ Alive /\ pc[p] = "pub_lock"
    /\ mu' = p
    /\ Goto(p, "pub_cs")
    /\ idx' = [idx EXCEPT ![p] = 1]
    /\ val' = [val EXCEPT ![p] = nextEv + 1]
    /\ nextEv' = nextEv + 1
    /\ pending' = [pending EXCEPT ![p] = {c \in Range(cs) : rq[c] = "waiting"}]
    /\ UNCHANGED <<cs, closed, rq, conn, carg, recvd, written, fault, lines,
                   calls, nSub, nRemoved, usubCalls, tried, subbed, mainVars>>

PubLock(p) ==
    /\ Alive /\ pc[p] = "pub_lock"
    /\ Lock(p)
    /\ Goto(p, "pub_cs")
    /\ idx' = [idx EXCEPT ![p] = 1]
    /\ val' = [val EXCEPT ![p] = nextEv + 1]
    /\ nextEv' = nextEv + 1
    /\ pending' = [pending EXCEPT ![p] = {c \in Range(cs) : Ready(c)}]
    /\ UNCHANGED <<cs, closed, rq, conn, carg, recvd, written, fault, lines,
                   calls, nSub, nRemoved, usubCalls, tried, subbed, mainVars>>

\* Faulty variants: a plain send c <- v, which waits for the receiver, and
\* a loop that stops at the first busy receiver.
PubSendBlocking(p) ==
    /\ Alive /\ pc[p] = "pub_cs" /\ idx[p] <= Len(cs)
    /\ LET c == cs[idx[p]] IN
        /\ ~closed[c] /\ rq[c] = "waiting"
        /\ idx' = [idx EXCEPT ![p] = @ + 1]
        /\ tried' = [tried EXCEPT ![c] = val[p]]
        /\ rq' = [rq EXCEPT ![c] = "handed"]
        /\ recvd' = [recvd EXCEPT ![c] = Append(@, val[p])]
    /\ UNCHANGED <<cs, mu, closed, conn, pc, carg, val, written, fault, lines,
                   calls, nextEv, nSub, nRemoved, usubCalls, pending, subbed,
                   mainVars>>

PubSendBreak(p) ==
    /\ Alive /\ pc[p] = "pub_cs" /\ idx[p] <= Len(cs)
    /\ LET c == cs[idx[p]] IN
        /\ ~closed[c]
        /\ tried' = [tried EXCEPT ![c] = val[p]]
        /\ IF rq[c] = "waiting"
           THEN /\ rq' = [rq EXCEPT ![c] = "handed"]
                /\ recvd' = [recvd EXCEPT ![c] = Append(@, val[p])]
                /\ idx' = [idx EXCEPT ![p] = @ + 1]
           ELSE /\ idx' = [idx EXCEPT ![p] = Len(cs) + 1]
                /\ UNCHANGED <<rq, recvd>>
    /\ UNCHANGED <<cs, mu, closed, conn, pc, carg, val, written, fault, lines,
                   calls, nextEv, nSub, nRemoved, usubCalls, pending, subbed,
                   mainVars>>

PubSend(p) ==
    /\ Alive /\ pc[p] = "pub_cs" /\ idx[p] <= Len(cs)
    /\ LET c == cs[idx[p]] IN
        IF closed[c]
        THEN /\ fault' = "send on closed channel"
             /\ UNCHANGED <<rq, recvd, idx, tried>>
        ELSE /\ fault' = fault
             /\ idx' = [idx EXCEPT ![p] = @ + 1]
             /\ tried' = [tried EXCEPT ![c] = val[p]]
             /\ IF Ready(c)
                THEN /\ rq' = [rq EXCEPT ![c] = "handed"]
                     /\ recvd' = [recvd EXCEPT ![c] = Append(@, val[p])]
                ELSE UNCHANGED <<rq, recvd>>
    /\ UNCHANGED <<cs, mu, closed, conn, pc, carg, val, written, lines, calls,
                   nextEv, nSub, nRemoved, usubCalls, pending, subbed,
                   mainVars>>

PubReturn(p) ==
    /\ Alive /\ pc[p] = "pub_cs" /\ idx[p] > Len(cs)
    /\ Unlock(p)
    /\ Goto(p, AfterPub(p))
    /\ idx' = [idx EXCEPT ![p] = 0]
    /\ val' = [val EXCEPT ![p] = 0]
    /\ pending' = [pending EXCEPT ![p] = {}]
    /\ UNCHANGED <<cs, closed, rq, conn, carg, recvd, written, fault, lines,
                   calls, nextEv, nSub, nRemoved, usubCalls, tried, subbed,
                   mainVars>>

(***************************************************************************)
(* close(c) of the Go runtime, and broadcaster.close                       *)
(***************************************************************************)
ChanClose(c) ==
    IF closed[c]
    THEN /\ fault' = "close of closed channel"
         /\ UNCHANGED <<closed, rq>>
    ELSE /\ fault' = fault
         /\ closed' = [closed EXCEPT ![c] = TRUE]
         /\ rq' = [rq EXCEPT ![c] = IF @ = "waiting" THEN "none" ELSE @]

CloseLock(p) ==
    /\ Alive /\ pc[p] = "close_lock"
    /\ Lock(p)
    /\ Goto(p, "close_cs")
    /\ idx' = [idx EXCEPT ![p] = 1]
    /\ UNCHANGED <<cs, closed, rq, conn, carg, val, recvd, written, fault,
                   lines, calls, nextEv, histVars, mainVars>>

CloseNext(p) ==
    /\ Alive /\ pc[p] = "close_cs" /\ idx[p] <= Len(cs)
    /\ ChanClose(cs[idx[p]])
    /\ idx' = [idx EXCEPT ![p] = IF fault' = "none" THEN @ + 1 ELSE @]
    /\ UNCHANGED <<cs, mu, conn, pc, carg, val, recvd, written, lines, calls,
                   nextEv, histVars, mainVars>>

CloseReturn(p) ==
    /\ Alive /\ pc[p] = "close_cs" /\ idx[p] > Len(cs)
    /\ Unlock(p)
    /\ Goto(p, AfterClose(p))
    /\ idx' = [idx EXCEPT ![p] = 0]
    /\ UNCHANGED <<cs, closed, rq, conn, carg, val, recvd, written, fault,
                   lines, calls, nextEv, histVars, mainVars>>

\* Faulty variant: no return after a failed upgrade.
UpgradeNoReturn(s) ==
    /\ Alive /\ pc[WsP(s)] = "upgrade" /\ pc[ServerP] = "serve"
    /\ \A r \in Sessions : r < s => pc[WsP(r)] # "upgrade"
    /\ \E ok \in BOOLEAN :
        IF ok
        THEN /\ conn' = [conn EXCEPT ![s] = "open"]
             /\ Goto(WsP(s), "sub_lock")
             /\ subbed' = subbed \cup {s}
        ELSE /\ Goto(WsP(s), "sub_lock")
             /\ subbed' = subbed \cup {s}
             /\ conn' = conn
    /\ UNCHANGED <<cs, mu, closed, rq, carg, idx, val, recvd, written, fault,
                   lines, calls, nextEv, nSub, nRemoved, usubCalls, pending,
                   tried, mainVars>>

(***************************************************************************)
(* ws: the handler of one websocket session                                *)
(***************************************************************************)
\* upgrader.Upgrade; on success c := make(chan interface{}) and b.sub(c).
\* Sessions are numbered in the order their requests reach the handler.
Upgrade(s) ==
    /\ Alive /\ pc[WsP(s)] = "upgrade" /\ pc[ServerP] = "serve"
    /\ \A r \in Sessions : r < s => pc[WsP(r)] # "upgrade"
    /\ \E ok \in BOOLEAN :
        IF ok
        THEN /\ conn' = [conn EXCEPT ![s] = "open"]
             /\ Goto(WsP(s), "sub_lock")
             /\ subbed' = subbed \cup {s}
        ELSE /\ Goto(WsP(s), "done")
             /\ UNCHANGED <<conn, subbed>>
    /\ UNCHANGED <<cs, mu, closed, rq, carg, idx, val, recvd, written, fault,
                   lines, calls, nextEv, nSub, nRemoved, usubCalls, pending,
                   tried, mainVars>>

\* go func() { ... }(): the reader goroutine starts.
GoReader(s) ==
    /\ Alive /\ pc[WsP(s)] = "go"
    /\ pc' = [pc EXCEPT ![WsP(s)] = "range", ![ReaderP(s)] = "read"]
    /\ UNCHANGED <<cs, mu, closed, rq, conn, carg, idx, val, recvd, written,
                   fault, lines, calls, nextEv, histVars, mainVars>>

\* for v := range c: the receive parks the goroutine on c ...
RangePark(s) ==
    /\ Alive /\ pc[WsP(s)] = "range"
    /\ rq[s] = "none" /\ ~closed[s]
    /\ rq' = [rq EXCEPT ![s] = "waiting"]
    /\ UNCHANGED <<cs, mu, closed, conn, pc, carg, idx, val, recvd, written,
                   fault, lines, calls, nextEv, histVars, mainVars>>

\* ... a sender wakes it with a value ...
RangeRecv(s) ==
    /\ Alive /\ pc[WsP(s)] = "range"
    /\ rq[s] = "handed"
    /\ rq' = [rq EXCEPT ![s] = "none"]
    /\ Goto(WsP(s), "write")
    /\ UNCHANGED <<cs, mu, closed, conn, carg, idx, val, recvd, written,
                   fault, lines, calls, nextEv, histVars, mainVars>>

\* ... or the channel is closed and the loop ends.
RangeEnd(s) ==
    /\ Alive /\ pc[WsP(s)] = "range"
    /\ rq[s] = "none" /\ closed[s]
    /\ Goto(WsP(s), "conn_close")
    /\ UNCHANGED <<cs, mu, closed, rq, conn, carg, idx, val, recvd, written,
                   fault, lines, calls, nextEv, histVars, mainVars>>

\* conn.WriteJSON(v); an error is logged and the loop goes on.
WriteJSON(s) ==
    /\ Alive /\ pc[WsP(s)] = "write"
    /\ written' = [written EXCEPT ![s] =
                     IF conn[s] = "open" THEN Append(@, Last(recvd[s])) ELSE @]
    /\ Goto(WsP(s), "range")
    /\ UNCHANGED <<cs, mu, closed, rq, conn, carg, idx, val, recvd, fault,
                   lines, calls, nextEv, histVars, mainVars>>

\* defer conn.Close()
ConnClose(s) ==
    /\ Alive /\ pc[WsP(s)] = "conn_close"
    /\ conn' = [conn EXCEPT ![s] = "closed"]
    /\ Goto(WsP(s), "done")
    /\ UNCHANGED <<cs, mu, closed, rq, carg, idx, val, recvd, written, fault,
                   lines, calls, nextEv, histVars, mainVars>>

\* The peer goes away (closes, network error, protocol error).
ClientGone(s) ==
    /\ Alive /\ conn[s] = "open"
    /\ conn' = [conn EXCEPT ![s] = "gone"]
    /\ UNCHANGED <<cs, mu, closed, rq, pc, carg, idx, val, recvd, written,
                   fault, lines, calls, nextEv, histVars, mainVars>>

\* conn.NextReader() fails: the reader goes on to b.usub(c).  A read that
\* succeeds discards the message and loops: it changes nothing.
NextReaderErr(s) ==
    /\ Alive /\ pc[ReaderP(s)] = "read"
    /\ conn[s] \in {"gone", "closed"}
    /\ Goto(ReaderP(s), "usub_lock")
    /\ UNCHANGED <<cs, mu, closed, rq, conn, carg, idx, val, recvd, written,
                   fault, lines, calls, nextEv, histVars, mainVars>>

\* close(c); break
\* Faulty variant: the reader leaves without close(c).
ReaderCloseForgotten(s) ==
    /\ Alive /\ pc[ReaderP(s)] = "close_c"
    /\ Goto(ReaderP(s), "done")
    /\ UNCHANGED <<cs, mu, closed, rq, conn, carg, idx, val, recvd, written,
                   fault, lines, calls, nextEv, histVars, mainVars>>

ReaderClose(s) ==
    /\ Alive /\ pc[ReaderP(s)] = "close_c"
    /\ ChanClose(s)
    /\ pc' = [pc EXCEPT ![ReaderP(s)] = IF fault' = "none" THEN "done" ELSE @]
    /\ UNCHANGED <<cs, mu, conn, carg, idx, val, recvd, written, lines, calls,
                   nextEv, histVars, mainVars>>

(***************************************************************************)
(* main: the log tailing goroutine                                         *)
(***************************************************************************)
\* Before the first line.
NoLine == [text |-> <<>>, ev0 |-> 0, res |-> "none"]

LineOutcomes == {"no ip", "lookup error", "ok"}

\* One line of t.Lines: no match or a failed lookup continues with the next
\* line, a resolved line calls b.pub.
TailLine ==
    /\ Alive /\ pc[TailP] = "lines" /\ lines < MaxLines
    /\ lines' = lines + 1
    /\ \E o \in LineOutcomes :
        Goto(TailP, IF o = "ok" THEN "pub_lock" ELSE "lines")
    /\ UNCHANGED <<cs, mu, closed, rq, conn, carg, idx, val, recvd, written,
                   fault, calls, nextEv, histVars, mainVars>>

\* The tailer closes t.Lines and the loop ends.
TailEnd ==
    /\ Alive /\ pc[TailP] = "lines"
    /\ eof' = TRUE
    /\ Goto(TailP, "exited")
    /\ UNCHANGED <<cs, mu, closed, rq, conn, carg, idx, val, recvd, written,
                   fault, lines, calls, nextEv, histVars, wg, down, line>>

(***************************************************************************)
(* The program as main wires it: sessions and the log tailing goroutine.   *)
(***************************************************************************)
Init ==
    /\ cs = <<>>
    /\ mu = NoProc
    /\ closed = [c \in Sessions |-> FALSE]
    /\ rq = [c \in Sessions |-> "none"]
    /\ conn = [s \in Sessions |-> "none"]
    /\ pc = [p \in Procs |->
               IF p[1] = "ws" THEN "upgrade"
               ELSE IF p[1] = "tail" THEN "lines"
               ELSE IF p[1] = "server" THEN "serve"
               ELSE IF p[1] = "main" THEN "sigs"
               ELSE "off"]
    /\ carg = [k \in Callers |-> 0]
    /\ idx = [p \in Publishers |-> 0]
    /\ val = [p \in Publishers |-> 0]
    /\ recvd = [c \in Sessions |-> <<>>]
    /\ written = [s \in Sessions |-> <<>>]
    /\ fault = "none"
    /\ lines = 0
    /\ calls = [k \in Callers |-> 0]
    /\ nextEv = 0
    /\ nSub = 0
    /\ nRemoved = 0
    /\ usubCalls = [c \in Sessions |-> 0]
    /\ pending = [p \in Publishers |-> {}]
    /\ tried = [c \in Sessions |-> 0]
    /\ subbed = {}
    /\ wg = 2
    /\ eof = FALSE
    /\ down = FALSE
    /\ line = NoLine

WsNext(s) ==
    \/ Upgrade(s)
    \/ SubLock(WsP(s))
    \/ SubAppend(WsP(s))
    \/ GoReader(s)
    \/ RangePark(s)
    \/ RangeRecv(s)
    \/ RangeEnd(s)
    \/ WriteJSON(s)
    \/ ConnClose(s)

ReaderNext(s) ==
    \/ NextReaderErr(s)
    \/ UsubLock(ReaderP(s))
    \/ UsubFilter(ReaderP(s))
    \/ ReaderClose(s)

TailNext ==
    \/ TailLine
    \/ TailEnd
    \/ PubLock(TailP)
    \/ PubSend(TailP)
    \/ PubReturn(TailP)

Next ==
    \/ \E s \in Sessions : WsNext(s)
    \/ \E s \in Sessions : ReaderNext(s)
    \/ \E s \in Sessions : ClientGone(s)
    \/ TailNext

Spec == Init /\ [][Next]_vars

\* The log tailing goroutine keeps running whatever the sessions do: the
\* scheduler runs a goroutine that can take a step.
PubFairSpec == Spec /\ WF_vars(TailNext)

\* Every goroutine that can keep taking a step is run, and conn.WriteJSON
\* returns.  The peer is under no obligation to leave.  (A goroutine blocked
\* in b.mu.Lock() needs no more than this here, where the other goroutines
\* take the mutex a bounded number of times; sync.Mutex hands the mutex to a
\* starving waiter in any case.)
Fairness ==
    /\ WF_vars(TailNext)
    /\ \A s \in Sessions : WF_vars(WsNext(s)) /\ WF_vars(ReaderNext(s))

FairSpec == Spec /\ Fairness

(***************************************************************************)
(* Shutdown: the program with broadcaster.close called once while sessions *)
(* and the log tailing goroutine run.                                      *)
(***************************************************************************)
Shutdown ==
    /\ Alive /\ pc[ShutdownP] = "off"
    /\ Goto(ShutdownP, "close_lock")
    /\ UNCHANGED <<cs, mu, closed, rq, conn, carg, idx, val, recvd, written,
                   fault, lines, calls, nextEv, histVars, mainVars>>

ShutdownNext ==
    \/ Shutdown
    \/ CloseLock(ShutdownP)
    \/ CloseNext(ShutdownP)
    \/ CloseReturn(ShutdownP)

NextShutdown ==
    \/ Next
    \/ ShutdownNext

ShutdownSpec == Init /\ [][NextShutdown]_vars

FairShutdownSpec ==
    /\ ShutdownSpec
    /\ Fairness
    /\ WF_vars(ShutdownNext)

(***************************************************************************)
(* The broadcaster alone: callers make any sequence of sub, usub, pub and  *)
(* close calls (a channel is passed to sub at most once), and the channels *)
(* are drained by writer loops as in ws.                                   *)
(***************************************************************************)
BusInit ==
    /\ cs = <<>>
    /\ mu = NoProc
    /\ closed = [c \in Sessions |-> FALSE]
    /\ rq = [c \in Sessions |-> "none"]
    /\ conn = [s \in Sessions |-> "open"]
    /\ pc = [p \in Procs |->
               IF p[1] = "ws" THEN "range"
               ELSE IF p[1] = "caller" THEN "idle"
               ELSE "off"]
    /\ carg = [k \in Callers |-> 0]
    /\ idx = [p \in Publishers |-> 0]
    /\ val = [p \in Publishers |-> 0]
    /\ recvd = [c \in Sessions |-> <<>>]
    /\ written = [s \in Sessions |-> <<>>]
    /\ fault = "none"
    /\ lines = 0
    /\ calls = [k \in Callers |-> 0]
    /\ nextEv = 0
    /\ nSub = 0
    /\ nRemoved = 0
    /\ usubCalls = [c \in Sessions |-> 0]
    /\ pending = [p \in Publishers |-> {}]
    /\ tried = [c \in Sessions |-> 0]
    /\ subbed = {}
    /\ wg = 0
    /\ eof = FALSE
    /\ down = FALSE
    /\ line = NoLine

Call(k, l) ==
    /\ Alive /\ pc[CallerP(k)] = "idle" /\ calls[k] < MaxCalls
    /\ calls' = [calls EXCEPT ![k] = @ + 1]
    /\ Goto(CallerP(k), l)
    /\ UNCHANGED <<cs, mu, closed, rq, conn, idx, val, recvd, written, fault,
                   lines, nextEv, nSub, nRemoved, usubCalls, pending, tried,
                   mainVars>>

\* Channels are numbered in the order they are passed to sub.
CallSub(k) ==
    \E c \in Sessions \ subbed :
        /\ \A d \in Sessions \ subbed : c <= d
        /\ Call(k, "sub_lock")
        /\ carg' = [carg EXCEPT ![k] = c]
        /\ subbed' = subbed \cup {c}

CallUsub(k) ==
    \E c \in Sessions :
        /\ Call(k, "usub_lock")
        /\ carg' = [carg EXCEPT ![k] = c]
        /\ UNCHANGED subbed

CallPub(k) == Call(k, "pub_lock") /\ UNCHANGED <<carg, subbed>>

CallClose(k) == Call(k, "close_lock") /\ UNCHANGED <<carg, subbed>>

CallerNext(k) ==
    \/ CallSub(k)
    \/ CallUsub(k)
    \/ CallPub(k)
    \/ CallClose(k)
    \/ SubLock(CallerP(k))
    \/ SubAppend(CallerP(k))
    \/ UsubLock(CallerP(k))
    \/ UsubFilter(CallerP(k))
    \/ PubLock(CallerP(k))
    \/ PubSend(CallerP(k))
    \/ PubReturn(CallerP(k))
    \/ CloseLock(CallerP(k))
    \/ CloseNext(CallerP(k))
    \/ CloseReturn(CallerP(k))

DrainNext(s) ==
    \/ RangePark(s)
    \/ RangeRecv(s)
    \/ RangeEnd(s)
    \/ WriteJSON(s)
    \/ ConnClose(s)

BusNext ==
    \/ \E k \in Callers : CallerNext(k)
    \/ \E s \in Sessions : DrainNext(s)

BusSpec == BusInit /\ [][BusNext]_vars

(***************************************************************************)
(* main: the line loop of the log tailing goroutine, step by step          *)
(***************************************************************************)
\* A line is a sequence of fields; a field is the sequence of its digit
\* runs when it has the shape d.d.d.d (four of them), and <<>> for any other
\* text.  <<>> is also the empty string and the nil net.IP.
Fields == {<<>>, <<203, 0, 113, 9>>, <<999, 1, 1, 1>>}

Texts == UNION {[1..n -> Fields] : n \in 1..MaxFields}

\* ipregexp.FindString: the leftmost match of \d+\.\d+\.\d+\.\d+, or "".
RECURSIVE FindString(_)
FindString(text) ==
    IF text = <<>> THEN <<>>
    ELSE IF Len(Head(text)) = 4 THEN Head(text)
    ELSE FindString(Tail(text))

\* net.ParseIP on a dotted quad: nil unless every part fits a byte.
ParseIP(s) ==
    IF Len(s) = 4 /\ \A n \in 1..4 : s[n] <= 255 THEN s ELSE <<>>

\* Faulty variant: a nil address is looked up like any other.
LookupErrNilAccepted(ip) == BOOLEAN

\* gdb.Lookup(ip, &res): whether it returns an error.  For an address the
\* database, the record and the file decide; maxminddb's Lookup refuses a
\* nil address with an error.
LookupErr(ip) == IF ip = <<>> THEN {TRUE} ELSE BOOLEAN

\* The events broadcast for the line taken last.
Pubs == nextEv - line.ev0

\* for line := range t.Lines
TailRecv ==
    /\ Alive /\ pc[TailP] = "lines" /\ ~eof /\ lines < MaxLines
    /\ lines' = lines + 1
    /\ \E text \in Texts :
        line' = [text |-> text, ev0 |-> nextEv, res |-> "none"]
    /\ Goto(TailP, "find")
    /\ UNCHANGED <<cs, mu, closed, rq, conn, carg, idx, val, recvd, written,
                   fault, calls, nextEv, histVars, wg, eof, down>>

\* ipstr := ipregexp.FindString(line.Text); if ipstr == "" { continue }
TailFind ==
    /\ Alive /\ pc[TailP] = "find"
    /\ IF FindString(line.text) = <<>>
       THEN /\ line' = [line EXCEPT !.res = "no ip"]
            /\ Goto(TailP, "lines")
       ELSE /\ line' = line
            /\ Goto(TailP, "lookup")
    /\ UNCHANGED <<cs, mu, closed, rq, conn, carg, idx, val, recvd, written,
                   fault, lines, calls, nextEv, histVars, wg, eof, down>>

\* Faulty variant: the error of gdb.Lookup is logged and the line goes on.
TailLookupNoContinue ==
    /\ Alive /\ pc[TailP] = "lookup"
    /\ \E err \in LookupErr(ParseIP(FindString(line.text))) :
        line' = [line EXCEPT !.res = IF err THEN "lookup error" ELSE "ok"]
    /\ Goto(TailP, "pub_lock")
    /\ UNCHANGED <<cs, mu, closed, rq, conn, carg, idx, val, recvd, written,
                   fault, lines, calls, nextEv, histVars, wg, eof, down>>

\* ip := net.ParseIP(ipstr); if err := gdb.Lookup(ip, &res); err != nil
\* { continue }; otherwise b.pub is called.
TailLookup ==
    /\ Alive /\ pc[TailP] = "lookup"
    /\ \E err \in LookupErr(ParseIP(FindString(line.text))) :
        IF err
        THEN /\ line' = [line EXCEPT !.res = "lookup error"]
             /\ Goto(TailP, "lines")
        ELSE /\ line' = [line EXCEPT !.res = "ok"]
             /\ Goto(TailP, "pub_lock")
    /\ UNCHANGED <<cs, mu, closed, rq, conn, carg, idx, val, recvd, written,
                   fault, lines, calls, nextEv, histVars, wg, eof, down>>

\* The range over t.Lines ends once the channel is closed.
TailClosed ==
    /\ Alive /\ pc[TailP] = "lines" /\ eof
    /\ Goto(TailP, "exited")
    /\ UNCHANGED <<cs, mu, closed, rq, conn, carg, idx, val, recvd, written,
                   fault, lines, calls, nextEv, histVars, mainVars>>

(***************************************************************************)
(* main: WaitGroup, the two goroutines, the signal and the shutdown        *)
(***************************************************************************)
\* go func() { ... }(): the server goroutine is started.
GoServer ==
    /\ Alive /\ pc[MainP] = "go_server"
    /\ pc' = [pc EXCEPT ![MainP] = "go_tail", ![ServerP] = "add"]
    /\ UNCHANGED <<cs, mu, closed, rq, conn, carg, idx, val, recvd, written,
                   fault, lines, calls, nextEv, histVars, mainVars>>

\* b = &broadcaster{}; go func() { ... }(): the tailing goroutine is started.
GoTail ==
    /\ Alive /\ pc[MainP] = "go_tail"
    /\ pc' = [pc EXCEPT ![MainP] = "sigs", ![TailP] = "add"]
    /\ UNCHANGED <<cs, mu, closed, rq, conn, carg, idx, val, recvd, written,
                   fault, lines, calls, nextEv, histVars, mainVars>>

\* wg.Add(1), the first statement of the goroutine p.
WgAdd(p, l) ==
    /\ Alive /\ pc[p] = "add"
    /\ wg' = wg + 1
    /\ Goto(p, l)
    /\ UNCHANGED <<cs, mu, closed, rq, conn, carg, idx, val, recvd, written,
                   fault, lines, calls, nextEv, histVars, eof, down, line>>

\* defer wg.Done(), run when the goroutine p returns.
WgDone(p, l) ==
    /\ Alive /\ pc[p] = l
    /\ wg' = wg - 1
    /\ Goto(p, "done")
    /\ UNCHANGED <<cs, mu, closed, rq, conn, carg, idx, val, recvd, written,
                   fault, lines, calls, nextEv, histVars, eof, down, line>>

ServerAdd == WgAdd(ServerP, "serve")

\* server.ListenAndServe() returns once Shutdown has been called.
ListenAndServe ==
    /\ Alive /\ pc[ServerP] = "serve" /\ down
    /\ Goto(ServerP, "served")
    /\ UNCHANGED <<cs, mu, closed, rq, conn, carg, idx, val, recvd, written,
                   fault, lines, calls, nextEv, histVars, mainVars>>

ServerDone == WgDone(ServerP, "served")

TailAdd == WgAdd(TailP, "lines")

TailDone == WgDone(TailP, "exited")

\* <-sigs: SIGINT or SIGTERM arrives.
Signal ==
    /\ Alive /\ pc[MainP] = "sigs"
    /\ Goto(MainP, "stop")
    /\ UNCHANGED <<cs, mu, closed, rq, conn, carg, idx, val, recvd, written,
                   fault, lines, calls, nextEv, histVars, mainVars>>

\* t.Stop(): the tailer stops and closes t.Lines.
TStop ==
    /\ Alive /\ pc[MainP] = "stop"
    /\ eof' = TRUE
    /\ Goto(MainP, "shutdown")
    /\ UNCHANGED <<cs, mu, closed, rq, conn, carg, idx, val, recvd, written,
                   fault, lines, calls, nextEv, histVars, wg, down, line>>

\* server.Shutdown(context.Background()): the listener is closed; hijacked
\* websocket connections are not waited for.
ServerShutdown ==
    /\ Alive /\ pc[MainP] = "shutdown"
    /\ down' = TRUE
    /\ Goto(MainP, "wait")
    /\ UNCHANGED <<cs, mu, closed, rq, conn, carg, idx, val, recvd, written,
                   fault, lines, calls, nextEv, histVars, wg, eof, line>>

\* wg.Wait() returns when the counter is zero, and main returns.
WgWait ==
    /\ Alive /\ pc[MainP] = "wait"
    /\ wg = 0
    /\ Goto(MainP, "exited")
    /\ UNCHANGED <<cs, mu, closed, rq, conn, carg, idx, val, recvd, written,
                   fault, lines, calls, nextEv, histVars, mainVars>>

\* main at the declaration of wg: nothing is started yet.
MainInit ==
    /\ cs = <<>>
    /\ mu = NoProc
    /\ closed = [c \in Sessions |-> FALSE]
    /\ rq = [c \in Sessions |-> "none"]
    /\ conn = [s \in Sessions |-> "none"]
    /\ pc = [p \in Procs |->
               IF p[1] = "ws" THEN "upgrade"
               ELSE IF p[1] = "main" THEN "go_server"
               ELSE "off"]
    /\ carg = [k \in Callers |-> 0]
    /\ idx = [p \in Publishers |-> 0]
    /\ val = [p \in Publishers |-> 0]
    /\ recvd = [c \in Sessions |-> <<>>]
    /\ written = [s \in Sessions |-> <<>>]
    /\ fault = "none"
    /\ lines = 0
    /\ calls = [k \in Callers |-> 0]
    /\ nextEv = 0
    /\ nSub = 0
    /\ nRemoved = 0
    /\ usubCalls = [c \in Sessions |-> 0]
    /\ pending = [p \in Publishers |-> {}]
    /\ tried = [c \in Sessions |-> 0]
    /\ subbed = {}
    /\ wg = 0
    /\ eof = FALSE
    /\ down = FALSE
    /\ line = NoLine

MainNext ==
    \/ GoServer
    \/ GoTail
    \/ Signal
    \/ TStop
    \/ ServerShutdown
    \/ WgWait

ServerNext ==
    \/ ServerAdd
    \/ ListenAndServe
    \/ ServerDone

LineNext ==
    \/ TailAdd
    \/ TailRecv
    \/ TailFind
    \/ TailLookup
    \/ PubLock(TailP)
    \/ PubSend(TailP)
    \/ PubReturn(TailP)
    \/ TailClosed
    \/ TailDone

\* The whole program with one websocket client and the line loop in steps.
NextMain ==
    \/ MainNext
    \/ ServerNext
    \/ LineNext
    \/ WsNext(1)
    \/ ReaderNext(1)
    \/ ClientGone(1)

MainSpec == MainInit /\ [][NextMain]_vars

(***************************************************************************)
(* Properties                                                              *)
(***************************************************************************)
Increasing(s) == \A m, n \in DOMAIN s : m < n => s[m] < s[n]

\* C1: once broadcaster.close has returned, no later pub faults: it never
\* sends on a closed channel.  (ShutdownSpec)
C1_PubAfterCloseIsSafe ==
    pc[ShutdownP] = "done" => fault # "send on closed channel"

\* C2: an event is delivered to a channel only while the channel is in the
\* registry and no usub of it has completed.  (Spec)
C2_NoDeliveryAfterUsub ==
    [][\A c \in Sessions :
         recvd'[c] # recvd[c] => (c \in Range(cs) /\ usubCalls[c] = 0)]_vars

\* A pub holds the mutex after usub(c) returned, while the receiver of c is
\* still parked on the open channel.
C2_Witness ==
    \E c \in Sessions :
        /\ usubCalls[c] = 1 /\ ~closed[c] /\ rq[c] = "waiting"
        /\ pc[TailP] = "pub_cs" /\ idx[TailP] > 1

\* C3: the registry holds as many channels as sub calls appended minus the
\* usub calls that found their channel registered, and no step of pub
\* changes the registry.  (BusSpec)
C3_RegistrySize ==
    /\ [](Len(cs) + nRemoved = nSub)
    /\ [][\A p \in Publishers :
            (pc[p] = "pub_cs" \/ pc'[p] = "pub_cs") => cs' = cs]_vars

\* Two channels were registered, one was removed, and some usub found
\* nothing to remove.
C3_Witness ==
    /\ nSub = 2 /\ nRemoved = 1 /\ Len(cs) = 1
    /\ \E c \in Sessions : usubCalls[c] = 2

\* C4: a pub that holds the mutex reaches the end of the registry and
\* releases the mutex, with no assumption that any session ever takes a
\* step.  (PubFairSpec: only the log tailing goroutine is scheduled fairly)
C4_PubNeverWaits ==
    (pc[TailP] = "pub_cs") ~> (pc[TailP] = "lines" /\ mu = NoProc)

\* A pub has gone past a registered channel whose writer loop was busy
\* writing, and past one whose receiver had not parked yet.
C4_Witness ==
    /\ pc[TailP] = "pub_cs" /\ Len(cs) = 2 /\ idx[TailP] = 3
    /\ pc[WsP(cs[1])] = "write" /\ tried[cs[1]] = val[TailP]
    /\ pc[WsP(cs[2])] = "range" /\ rq[cs[2]] = "none"
    /\ recvd[cs[2]] = <<>> /\ tried[cs[2]] = val[TailP]

\* C5: a send attempt on c delivers the event exactly when the receiver of
\* c is parked on it at that step; otherwise nothing is delivered, and no
\* step other than an event's own attempt delivers it.  (Spec)
C5_DeliverIffParked ==
    [][\A c \in Sessions :
         IF tried'[c] # tried[c]
         THEN IF rq[c] = "waiting"
              THEN recvd'[c] = Append(recvd[c], tried'[c])
              ELSE recvd'[c] = recvd[c]
         ELSE recvd'[c] = recvd[c]]_vars

\* A channel received one event and a later event was dropped for it.
C5_Witness ==
    \E c \in Sessions :
        /\ recvd[c] # <<>> /\ tried[c] > Last(recvd[c])
        /\ pc[TailP] # "pub_cs"

\* C6: no channel receives an event twice, and when a pub has gone through
\* the registry every channel that was registered with a parked receiver
\* when the pub took the mutex has received the event exactly once.  (Spec)
C6_PendingReceiveOnce ==
    /\ \A c \in Sessions : \A e \in 1..nextEv : Count(recvd[c], e) <= 1
    /\ \A p \in Publishers :
         pc[p] = "pub_cs" =>
            \A n \in 1..Len(cs) :
               (n < idx[p] /\ cs[n] \in pending[p])
                  => Count(recvd[cs[n]], val[p]) = 1

\* A pub has gone through a registry of two channels whose receivers were
\* both parked when it started.
C6_Witness ==
    /\ pc[TailP] = "pub_cs" /\ idx[TailP] > Len(cs)
    /\ Cardinality(pending[TailP]) = 2

\* C7: what a channel's receiver receives, and what its writer loop
\* writes, are events in the order the pub calls took the mutex.  (BusSpec)
C7_PublishOrder ==
    \A c \in Sessions :
        /\ Increasing(recvd[c]) /\ Range(recvd[c]) \subseteq 1..nextEv
        /\ Increasing(written[c]) /\ Range(written[c]) \subseteq Range(recvd[c])

\* A writer loop has received and written two events.
C7_Witness ==
    \E c \in Sessions : Len(written[c]) = 2

\* C8: usub never faults; it leaves the registry as it was when its
\* channel is not registered, and otherwise removes that channel and keeps
\* the others in their order.  (BusSpec)
C8_UsubAbsentIsNoOp ==
    [][\A k \in Callers :
         (pc[CallerP(k)] = "usub_cs" /\ pc'[CallerP(k)] # "usub_cs")
            => /\ fault' = "none"
               /\ cs' = SelectSeq(cs, LAMBDA x : x # carg[k])
               /\ (carg[k] \notin Range(cs) => cs' = cs)]_vars

\* A channel that was never registered has been unsubscribed while another
\* channel is registered.
C8_Witness ==
    /\ cs # <<>>
    /\ \E c \in Sessions : c \notin subbed /\ usubCalls[c] >= 1

\* Session s is over: the handler has returned and closed the connection,
\* the reader goroutine has left its loop, the channel is not registered.
Closed(s) ==
    /\ pc[WsP(s)] = "done" /\ pc[ReaderP(s)] = "done"
    /\ conn[s] = "closed" /\ s \notin Range(cs)

\* The closing of session s has been triggered: its reader goroutine runs
\* and the peer has left, or its channel has been closed.
Closing(s) == pc[ReaderP(s)] # "off" /\ (conn[s] = "gone" \/ closed[s])

\* C9: a session makes at most one usub call, and once its closing has
\* been triggered, by the peer leaving or by broadcaster.close, it makes
\* one.  (FairShutdownSpec)
C9_ExactlyOneUsub ==
    /\ [](\A s \in Sessions : usubCalls[s] <= 1)
    /\ \A s \in Sessions : Closing(s) ~> (usubCalls[s] = 1)

\* C10: a channel is closed only after its one usub has removed it, and a
\* session whose reader saw its read fail ends up Closed.  (FairSpec)
C10_ReaderDisconnectCloses ==
    /\ [](\A s \in Sessions :
            closed[s] => (usubCalls[s] = 1 /\ s \notin Range(cs)))
    /\ \A s \in Sessions : (pc[ReaderP(s)] = "usub_lock") ~> Closed(s)

\* A session that received and wrote an event is Closed after its reader
\* unsubscribed and closed the channel.
C10_Witness ==
    \E s \in Sessions :
        Closed(s) /\ closed[s] /\ usubCalls[s] = 1 /\ written[s] # <<>>

\* C11: a session whose channel broadcaster.close has closed (closed with
\* no usub of it made yet) ends up Closed, handler returned, connection
\* closed, reader exited, channel unregistered, and no panic has ended the
\* process.  (FairShutdownSpec)
C11_CloseAllClosesSession ==
    \A s \in Sessions :
        (closed[s] /\ usubCalls[s] = 0) ~> (Closed(s) /\ fault = "none")

\* C16: no channel is closed twice and nothing is sent on a closed channel:
\* neither panic ever ends the process.  (ShutdownSpec)
C16_NoDoubleCloseNoSendOnClosed ==
    fault \notin {"close of closed channel", "send on closed channel"}

\* The match of the line taken last, and the address parsed from it.
Ipstr == FindString(line.text)
Ip == ParseIP(Ipstr)

\* C12: a line whose gdb.Lookup returned an error has no event broadcast
\* for it, and the log tailing goroutine is back at the range over t.Lines
\* (or past it, once t.Lines is closed).  (MainSpec)
C12_LookupErrorDiscards ==
    line.res = "lookup error" =>
        Pubs = 0 /\ pc[TailP] \in {"lines", "exited", "done"}

\* The lookup of a well-formed address failed, nothing was broadcast for
\* the line, and the next line can be taken.
C12_Witness ==
    /\ line.res = "lookup error" /\ Ip # <<>> /\ Pubs = 0
    /\ pc[TailP] = "lines" /\ lines < MaxLines /\ ~eof /\ Alive

\* C14: at most one event is broadcast per line; a line without a match
\* ends as "no ip" with nothing broadcast and the goroutine back at the
\* range over t.Lines; the loop is left only with t.Lines closed and is
\* not entered again.  (MainSpec)
C14_OnePubPerLine ==
    /\ [](/\ Pubs <= 1
          /\ Ipstr = <<>> => line.res \in {"none", "no ip"} /\ Pubs = 0
          /\ line.res = "no ip" =>
                Ipstr = <<>> /\ pc[TailP] \in {"lines", "exited", "done"}
          /\ pc[TailP] \in {"exited", "done"} => eof)
    /\ [][pc[TailP] \in {"exited", "done"} =>
            pc'[TailP] \in {"exited", "done"}]_vars

\* The second line is being broadcast, one event per line so far, after a
\* first line that was broadcast or dropped.
C14_Witness ==
    /\ lines = MaxLines /\ pc[TailP] = "pub_cs" /\ Pubs = 1
    /\ line.res = "ok" /\ nextEv <= lines

C13_ExitAfterBothUnits ==
    pc[MainP] = "exited" =>
        /\ eof /\ down
        /\ pc[ServerP] = "done" /\ pc[TailP] = "done"

\* C15: a session whose upgrade failed has returned from ws with no
\* channel of its own made, subscribed or closed and no reader goroutine
\* started, and the step in which the upgrade fails leaves the registry as
\* it was.  (Spec)
C15_FailedUpgradeNoHandle ==
    /\ [](\A s \in Sessions :
            (conn[s] = "none" /\ pc[WsP(s)] # "upgrade") =>
                /\ pc[WsP(s)] = "done" /\ pc[ReaderP(s)] = "off"
                /\ s \notin Range(cs) /\ s \notin subbed
                /\ rq[s] = "none" /\ ~closed[s] /\ recvd[s] = <<>>)
    /\ [][\A s \in Sessions :
            (pc[WsP(s)] = "upgrade" /\ pc'[WsP(s)] = "done") => cs' = cs]_vars

\* The upgrade of one session failed while another session is registered.
C15_Witness ==
    \E s \in Sessions :
        /\ conn[s] = "none" /\ pc[WsP(s)] = "done"
        /\ cs # <<>> /\ s \notin Range(cs)

\* Goroutine p is between Lock and Unlock of b.mu.
InCS(p) == pc[p] \in {"sub_cs", "usub_cs", "pub_cs", "close_cs"}

\* C17: at most one goroutine is inside sub, usub, pub or close between
\* Lock and Unlock, and it is the holder of b.mu; the registry changes only
\* in a step of the goroutine that holds b.mu inside sub or usub, so never
\* while a pub ranges over it; a goroutine that leaves its critical section
\* leaves b.mu unlocked.  (BusSpec)
C17_MutualExclusion ==
    /\ [](\A p, q \in Procs : (InCS(p) /\ InCS(q)) => p = q)
    /\ [](\A p \in Procs : InCS(p) <=> mu = p)
    /\ [][cs' # cs =>
            \E p \in Procs : mu = p /\ pc[p] \in {"sub_cs", "usub_cs"}]_vars
    /\ [][\A p \in Procs : (InCS(p) /\ ~InCS(p)') => mu' = NoProc]_vars

\* One caller ranges over a non-empty registry inside pub while another
\* waits for b.mu in sub, usub or close.
C17_Witness ==
    \E p, q \in Procs :
        /\ pc[p] = "pub_cs" /\ mu = p /\ cs # <<>>
        /\ pc[q] \in {"sub_lock", "usub_lock", "close_lock"}

\* C18: a channel holds no backlog.  It receives an event only in the step
\* of the pub that is broadcasting that event, with the channel in the
\* registry and its writer parked in the receive; the event is newer than
\* every event tried on the channel before, so a dropped event never
\* arrives later; an attempt made while the writer is in conn.WriteJSON
\* delivers nothing; and a channel enters the registry having received
\* nothing.  (Spec)
C18_NoBacklog ==
    [][\A c \in Sessions :
         /\ recvd'[c] # recvd[c] =>
               /\ c \in Range(cs) /\ pc[WsP(c)] = "range" /\ rq[c] = "waiting"
               /\ \E p \in Publishers :
                     /\ mu = p /\ pc[p] = "pub_cs" /\ val[p] = nextEv
                     /\ recvd'[c] = Append(recvd[c], val[p])
               /\ Last(recvd'[c]) > tried[c]
         /\ (tried'[c] # tried[c] /\ pc[WsP(c)] = "write") =>
               recvd'[c] = recvd[c]
         /\ (c \notin Range(cs) /\ c \in Range(cs')) =>
               recvd[c] = <<>> /\ recvd'[c] = <<>>]_vars

\* A session subscribed after the first event had been broadcast, received
\* a later event, and an event was dropped for a session whose writer was
\* in conn.WriteJSON with the event before it.
C18_Witness ==
    /\ \E c \in Sessions : recvd[c] # <<>> /\ recvd[c][1] > 1
    /\ \E c \in Sessions :
         /\ pc[WsP(c)] = "write" /\ recvd[c] # <<>>
         /\ tried[c] > Last(recvd[c])

\* C19: no channel is in the registry twice.  (Spec)
C19_RegistryNoDuplicates ==
    \A c \in Sessions : Count(cs, c) <= 1

\* Every session is registered, each once.
C19_Witness ==
    /\ Len(cs) = NumSessions
    /\ \A c \in Sessions : Count(cs, c) = 1

====
